---- MODULE Spec2Model ----
(***************************************************************************)
(* A model of svg-slicer's path-to-gcode generator                         *)
(* (src/src/svg_slicer/gcode_generator.py): GcodePoint.get_gcode, the      *)
(* primitive flatteners, the toolpath assembler _get_points with its       *)
(* overcut points, and generate_gcode; of the options widget               *)
(* (slicing_options.py), of helpers.save_file, and of get_scale and the    *)
(* gcode viewer's command parser of the older package svg2gcode.           *)
(*                                                                         *)
(* Numbers.  Python floats are modelled by exact rationals <<n, d>> in     *)
(* lowest terms with d > 0.  The inputs are drawn from small grids of      *)
(* integers and halves, on which the float arithmetic of the source is     *)
(* exact for the resolutions used.  A complex number is a record           *)
(* [real, imag] of two rationals.  Angles are rationals counted in         *)
(* quarter turns (1 = pi/2).                                               *)
(***************************************************************************)
EXTENDS Integers, Sequences, FiniteSets, TLC

VARIABLES
    options,    \* GcodeGenerator.options: the SlicingOptions record
    largest_x,  \* GcodeGenerator.largest_x
    largest_y,  \* GcodeGenerator.largest_y
    gcode,      \* GcodeGenerator.gcode: sequence of lines (strings)
    points,     \* GcodeGenerator.points: sequence of GcodePoint records
    call,       \* the last operation applied, its arguments and the
                \* bounding box it started from
    ret,        \* what that operation returned (or the error it raised)
    calls,      \* number of operations applied so far
    boxes,      \* SlicingOptionsWiget: the text of the input boxes
    status,     \* SlicingOptionsWiget.status_bar: the message shown
    files,      \* the file system: the contents of each file, if it exists
    warnings    \* the warning boxes shown so far

vars == <<options, largest_x, largest_y, gcode, points, call, ret, calls,
          boxes, status, files, warnings>>

\* the generator's fields, and what lies outside the generator
generator == <<largest_x, largest_y, gcode, points>>
desk == <<boxes, status, files, warnings>>

----------------------------------------------------------------------------
(* Bounds of the model *)

MaxCoord == 2       \* largest coordinate of the input grid
MaxRes == 3         \* largest curve resolution tried
MaxCalls == 2       \* operations applied to one generator
MaxPrims == 2       \* primitives in one path
MaxTheta == 4       \* solver angles range over -1 .. MaxTheta quarter turns
MaxDigits == 16     \* fractional digits printed for a non-terminating float
SqrtPrec == 10      \* math.dist is exact on squares, else cut to 1/SqrtPrec

----------------------------------------------------------------------------
(* Rational arithmetic *)

Abs(n) == IF n < 0 THEN -n ELSE n

RECURSIVE GCD(_, _)
GCD(a, b) == IF b = 0 THEN a ELSE GCD(b, a % b)

Rat(n, d) ==
    LET g == GCD(Abs(n), Abs(d))
        s == IF d < 0 THEN -1 ELSE 1
    IN  <<(s * n) \div g, (s * d) \div g>>

RI(k) == <<k, 1>>
LCM(a, b) == (a \div GCD(a, b)) * b
RAdd(a, b) ==
    LET l == LCM(a[2], b[2])
    IN  Rat(a[1] * (l \div a[2]) + b[1] * (l \div b[2]), l)
RNeg(a) == <<-a[1], a[2]>>
RSub(a, b) == RAdd(a, RNeg(b))
RMul(a, b) ==
    LET g1 == GCD(Abs(a[1]), b[2])
        g2 == GCD(Abs(b[1]), a[2])
    IN  Rat((a[1] \div g1) * (b[1] \div g2), (a[2] \div g2) * (b[2] \div g1))
RDiv(a, b) == RMul(a, IF b[1] < 0 THEN <<-b[2], -b[1]>> ELSE <<b[2], b[1]>>)
RLt(a, b) ==
    LET g == GCD(a[2], b[2])
    IN  a[1] * (b[2] \div g) < b[1] * (a[2] \div g)
RLe(a, b) == ~RLt(b, a)
RIsZero(a) == a[1] = 0
\* Python's max(a, b): the first maximal argument
RMax(a, b) == IF RLt(a, b) THEN b ELSE a
\* floor of a rational
RFloor(a) == a[1] \div a[2]

RECURSIVE RPow(_, _)
RPow(a, k) == IF k = 0 THEN RI(1) ELSE RMul(a, RPow(a, k - 1))

RECURSIVE ISqrtIn(_, _, _)
\* the k with lo <= k < hi and k * k <= n < (k + 1) * (k + 1)
ISqrtIn(n, lo, hi) ==
    IF hi - lo <= 1 THEN lo
    ELSE LET mid == (lo + hi) \div 2
         IN  IF mid * mid <= n THEN ISqrtIn(n, mid, hi) ELSE ISqrtIn(n, lo, mid)
\* integer square root (floor) of 0 <= n < 2^31
ISqrt(n) == ISqrtIn(n, 0, IF n < 46340 THEN n + 1 ELSE 46341)
IsSquare(n) == ISqrt(n) * ISqrt(n) = n

\* math.sqrt on a non-negative rational: exact on squares of rationals,
\* otherwise cut to a multiple of 1/SqrtPrec
RSqrt(a) ==
    IF IsSquare(a[1]) /\ IsSquare(a[2])
    THEN Rat(ISqrt(a[1]), ISqrt(a[2]))
    ELSE Rat(ISqrt((a[1] \div a[2]) * SqrtPrec * SqrtPrec
                   + ((a[1] % a[2]) * SqrtPrec * SqrtPrec) \div a[2]),
             SqrtPrec)

----------------------------------------------------------------------------
(* Complex numbers *)

Cx(x, y) == [real |-> x, imag |-> y]
CI(x, y) == Cx(RI(x), RI(y))
CAdd(a, b) == Cx(RAdd(a.real, b.real), RAdd(a.imag, b.imag))
CSub(a, b) == Cx(RSub(a.real, b.real), RSub(a.imag, b.imag))
CMul(a, b) ==
    Cx(RSub(RMul(a.real, b.real), RMul(a.imag, b.imag)),
       RAdd(RMul(a.real, b.imag), RMul(a.imag, b.real)))
\* complex scaled by / divided by a real
CScale(k, a) == Cx(RMul(k, a.real), RMul(k, a.imag))
CDivR(a, k) == Cx(RDiv(a.real, k), RDiv(a.imag, k))
\* |a|^2
CNorm2(a) == RAdd(RMul(a.real, a.real), RMul(a.imag, a.imag))

----------------------------------------------------------------------------
(* Text of numbers, as Python's f-strings print them *)

RECURSIVE FracDigits(_, _, _)
\* the digits of rem/d after the decimal point, at most k of them
FracDigits(rem, d, k) ==
    IF rem = 0 \/ k = 0 THEN ""
    ELSE ToString((rem * 10) \div d) \o FracDigits((rem * 10) % d, d, k - 1)

\* str(int)
IntText(n) == ToString(n)

RECURSIVE SciExponent(_, _)
\* the least k >= from with m * 10^k >= 1, for a rational m > 0
SciExponent(m, from) ==
    IF RLe(RI(1), RMul(m, RPow(RI(10), from))) THEN from
    ELSE SciExponent(m, from + 1)

\* the float m, 0 < m < 0.0001, in scientific notation ("1e-05", "2.5e-07")
SciText(m) ==
    LET k == SciExponent(m, 5)
        mant == RMul(m, RPow(RI(10), k))
        whole == mant[1] \div mant[2]
        rem == mant[1] % mant[2]
    IN  ToString(whole)
        \o (IF rem = 0 THEN "" ELSE "." \o FracDigits(rem, mant[2], MaxDigits))
        \o "e-" \o (IF k < 10 THEN "0" ELSE "") \o ToString(k)

\* str(float): always with a fractional part ("1.0", "1.5", "-0.5"), and in
\* scientific notation below 0.0001 ("1e-05").  (Floats of 1e16 and more
\* are beyond the integers of the model.)
FloatText(a) ==
    LET m == Abs(a[1])
        whole == m \div a[2]
        rem == m % a[2]
    IN  (IF a[1] < 0 THEN "-" ELSE "") \o
        (IF m # 0 /\ m * 10000 < a[2] THEN SciText(<<m, a[2]>>)
         ELSE ToString(whole) \o "." \o
              (IF rem = 0 THEN "0" ELSE FracDigits(rem, a[2], MaxDigits)))

----------------------------------------------------------------------------
(* Trigonometry.  np.exp(1j * theta) is cos(theta) + i sin(theta).  On      *)
(* multiples of a quarter turn it is exact; in between, the float result   *)
(* is modelled by Bhaskara's rational approximation of the sine (within    *)
(* 0.002 of the true value).                                               *)

\* sin(pi * x) for 0 <= x <= 1
HalfSine(x) ==
    LET p == RMul(x, RSub(RI(1), x))
    IN  RDiv(RMul(RI(16), p), RSub(RI(5), RMul(RI(4), p)))

\* q reduced to [0, 4) quarter turns
QMod4(q) == RSub(q, RI(4 * RFloor(RDiv(q, RI(4)))))

SinQ(q) ==
    LET m == QMod4(q)
    IN  IF RLe(m, RI(2)) THEN HalfSine(RDiv(m, RI(2)))
        ELSE RNeg(HalfSine(RDiv(RSub(m, RI(2)), RI(2))))

CosQ(q) == SinQ(RAdd(q, RI(1)))

\* np.exp(1j * theta), theta in quarter turns
Cis(q) == Cx(CosQ(q), SinQ(q))

\* np.radians(degrees), in quarter turns
Radians(deg) == RDiv(deg, RI(90))

\* np.linspace(start, stop, num, endpoint=False): the stop left out
Linspace_open(start, stop, num) ==
    [i \in 1..num |-> RAdd(start, RDiv(RMul(RI(i - 1), RSub(stop, start)), RI(num)))]

\* np.linspace(start, stop, num): num samples, both ends included
Linspace(start, stop, num) ==
    [i \in 1..num |->
        IF num = 1 THEN start
        ELSE RAdd(start, RDiv(RMul(RI(i - 1), RSub(stop, start)), RI(num - 1)))]

----------------------------------------------------------------------------
(* Path primitives (svgpathtools segments) *)

Line(s, e) == [kind |-> "Line", start |-> s, end |-> e]
Arc(s, rad, rot, e) ==
    [kind |-> "Arc", start |-> s, radius |-> rad, rotation |-> rot, end |-> e]
QuadraticBezier(s, c, e) ==
    [kind |-> "QuadraticBezier", start |-> s, control |-> c, end |-> e]
CubicBezier(s, c1, c2, e) ==
    [kind |-> "CubicBezier", start |-> s, control1 |-> c1, control2 |-> c2,
     end |-> e]
\* an object that is none of the four segment types
Other(s, e) == [kind |-> "Other", start |-> s, end |-> e]

----------------------------------------------------------------------------
(* The flatteners.  Each returns the points and the bounding box after the *)
(* call: [points, largest_x, largest_y].                                   *)

RECURSIVE Largest(_, _, _)
\* the running maximum after folding coordinate `axis` of pts[1..k] into m
Largest(m, pts, axis) ==
    IF pts = <<>> THEN m
    ELSE Largest(RMax(m, IF axis = "x" THEN Head(pts).real ELSE Head(pts).imag),
                 Tail(pts), axis)

Flat(pts, lx, ly) ==
    [points |-> pts,
     largest_x |-> Largest(lx, pts, "x"),
     largest_y |-> Largest(ly, pts, "y")]

\* _line_to_points with the bounding box taken from the line alone
_line_to_points_restart(lx, ly, line) ==
    [points |-> <<line.start, line.end>>,
     largest_x |-> RMax(line.start.real, line.end.real),
     largest_y |-> RMax(line.start.imag, line.end.imag)]

_line_to_points(lx, ly, line) ==
    [points |-> <<line.start, line.end>>,
     largest_x |-> RMax(RMax(lx, line.start.real), line.end.real),
     largest_y |-> RMax(RMax(ly, line.start.imag), line.end.imag)]

\* get_point of _quadricbezier_to_points
QuadricPoint(curve, t) ==
    LET u == RSub(RI(1), t)
        f(s, c, e) ==
            RAdd(RAdd(RMul(RPow(u, 2), s),
                      RMul(RMul(RMul(RI(2), u), t), c)),
                 RMul(RPow(t, 2), e))
    IN  Cx(f(curve.start.real, curve.control.real, curve.end.real),
           f(curve.start.imag, curve.control.imag, curve.end.imag))

_quadricbezier_to_points(lx, ly, res, curve) ==
    LET ts == Linspace(RI(0), RI(1), res)
    IN  Flat([i \in 1..res |-> QuadricPoint(curve, ts[i])], lx, ly)

\* get_point of _cubicbezier_to_points
CubicPoint(curve, t) ==
    LET u == RSub(RI(1), t)
        f(s, c1, c2, e) ==
            RAdd(RAdd(RAdd(RMul(RPow(u, 3), s),
                           RMul(RMul(RMul(RI(3), RPow(u, 2)), t), c1)),
                      RMul(RMul(RMul(RI(3), u), RPow(t, 2)), c2)),
                 RMul(RPow(t, 3), e))
    IN  Cx(f(curve.start.real, curve.control1.real, curve.control2.real,
             curve.end.real),
           f(curve.start.imag, curve.control1.imag, curve.control2.imag,
             curve.end.imag))

_cubicbezier_to_points(lx, ly, res, curve) ==
    LET ts == Linspace(RI(0), RI(1), res)
    IN  Flat([i \in 1..res |-> CubicPoint(curve, ts[i])], lx, ly)

----------------------------------------------------------------------------
(* Arcs.  scipy.optimize.fsolve is a library call: the model lets it       *)
(* return any root of ellipse_system whose angles are whole quarter turns  *)
(* in ThetaRange when there is one, and otherwise (no convergence: fsolve  *)
(* only warns, and the source does not look at its status) one of a few    *)
(* non-roots around the initial guess.  The arcs of the input pools are    *)
(* chosen so that each either has such a root or has no root at all.       *)

ThetaRange == -1 .. MaxTheta

ExpPhi(arc) == Cis(Radians(arc.rotation))

\* center + arc.radius * np.exp(1j * theta) * exp_phi
ArcPoint(arc, center, theta) ==
    CAdd(center, CMul(CMul(arc.radius, Cis(theta)), ExpPhi(arc)))

\* ellipse_system(variables), variables = <<xc, yc, t1, t2>>
ellipse_system(arc, v) ==
    LET c == Cx(v[1], v[2])
        rhs1 == ArcPoint(arc, c, v[3])
        rhs2 == ArcPoint(arc, c, v[4])
    IN  <<RSub(rhs1.real, arc.start.real), RSub(rhs1.imag, arc.start.imag),
          RSub(rhs2.real, arc.end.real), RSub(rhs2.imag, arc.end.imag)>>

IsRoot(arc, v) == ellipse_system(arc, v) = <<RI(0), RI(0), RI(0), RI(0)>>

\* initial = [mid.real, mid.imag, 0, np.pi / 2]
Initial(arc) ==
    LET mid == CDivR(CAdd(arc.start, arc.end), RI(2))
    IN  <<mid.real, mid.imag, RI(0), RI(1)>>

\* the roots with whole angles: the first residual fixes the center
Roots(arc) ==
    {v \in {LET c == CSub(arc.start,
                          CMul(CMul(arc.radius, Cis(RI(t[1]))), ExpPhi(arc)))
            IN  <<c.real, c.imag, RI(t[1]), RI(t[2])>> :
            t \in ThetaRange \X ThetaRange} : IsRoot(arc, v)}

\* what fsolve hands back when it did not converge
Unconverged(arc) ==
    LET i == Initial(arc)
    IN  {i, <<i[1], i[2], RI(1), RI(0)>>, <<i[1], i[2], RI(MaxTheta), RI(-1)>>}

\* the results scipy.optimize.fsolve(ellipse_system, initial) may give
fsolve(arc) == IF Roots(arc) # {} THEN Roots(arc) ELSE Unconverged(arc)

\* if theta2 < theta1: theta2 += 2 * np.pi
SpanEnd(theta1, theta2) ==
    IF RLt(theta2, theta1) THEN RAdd(theta2, RI(4)) ELSE theta2

\* the angles sampled for the solver's result sol:
\* np.linspace(theta1, theta2, self.options.curve_resolution)
SampledAngles(res, sol) == Linspace(sol[3], SpanEnd(sol[3], sol[4]), res)

\* _arc_to_points with the solver's result sol = <<xc, yc, theta1, theta2>>
_arc_to_points(lx, ly, res, arc, sol) ==
    LET center == Cx(sol[1], sol[2])
        thetas == SampledAngles(res, sol)
    IN  Flat([i \in 1..res |-> ArcPoint(arc, center, thetas[i])], lx, ly)

----------------------------------------------------------------------------
(* GcodePoint *)

HEADER == <<"; Generated with svg-slicer", "", "">>

\* CoordText without the conversion to int: every coordinate as a float
CoordText_float(c) == FloatText(c)

\* a corrected coordinate as the f-string prints it: int(c) when
\* c % 1 == 0, the float otherwise
CoordText(c) == IF c[2] = 1 THEN IntText(c[1]) ELSE FloatText(c)

\* get_gcode with the move of a raised point after the unlift fragment
get_gcode_move_last(self, opts) ==
    LET move == "G1 X" \o CoordText(RAdd(self.point.real, opts.start_point.real))
                \o " Y" \o CoordText(RAdd(self.point.imag, opts.start_point.imag))
    IN  IF self.raised
        THEN opts.lift_gcode
             \o <<"G0 F" \o IntText(opts.travel_feedrate),
                  "G0 F" \o IntText(opts.normal_feedrate)>>
             \o opts.unlift_gcode \o <<move>>
        ELSE <<move>>

\* get_gcode with a second move of a raised point after the unlift fragment
get_gcode_two_moves(self, opts) ==
    LET move == "G1 X" \o CoordText(RAdd(self.point.real, opts.start_point.real))
                \o " Y" \o CoordText(RAdd(self.point.imag, opts.start_point.imag))
    IN  IF self.raised
        THEN opts.lift_gcode
             \o <<"G0 F" \o IntText(opts.travel_feedrate),
                  move,
                  "G0 F" \o IntText(opts.normal_feedrate)>>
             \o opts.unlift_gcode \o <<move>>
        ELSE <<move>>

\* GcodePoint.get_gcode(options), self = [point, raised]
get_gcode(self, opts) ==
    LET corrected_x == RAdd(self.point.real, opts.start_point.real)
        corrected_y == RAdd(self.point.imag, opts.start_point.imag)
        move == "G1 X" \o CoordText(corrected_x) \o " Y" \o CoordText(corrected_y)
    IN  IF self.raised
        THEN opts.lift_gcode
             \o <<"G0 F" \o IntText(opts.travel_feedrate),
                  move,
                  "G0 F" \o IntText(opts.normal_feedrate)>>
             \o opts.unlift_gcode
        ELSE <<move>>

----------------------------------------------------------------------------
(* GcodeGenerator: the toolpath assembler *)

\* math.dist of the two points
Dist(a, b) == RSqrt(CNorm2(CSub(a, b)))

\* _get_overcut with the vector turned back toward the last point
_get_overcut_backward(opts, shape_start, last_point) ==
    LET distance == Dist(last_point, shape_start)
        vector == IF RIsZero(distance) THEN CI(1, 1)
                  ELSE CDivR(CSub(last_point, shape_start), distance)
    IN  CAdd(shape_start, CScale(opts.blade_offset, vector))

_get_overcut(opts, shape_start, last_point) ==
    LET distance == Dist(last_point, shape_start)
        vector == IF RIsZero(distance) THEN CI(1, 1)
                  ELSE CDivR(CSub(shape_start, last_point), distance)
    IN  CAdd(shape_start, CScale(opts.blade_offset, vector))

\* _extend_gcode_points that never lowers new_shape: every point of a new
\* shape raised
_extend_gcode_points_all(pts, new_points, new_shape) ==
    pts \o [i \in 1..Len(new_points) |->
               [point |-> new_points[i], raised |-> new_shape]]

\* _extend_gcode_points: pts is self.points
_extend_gcode_points(pts, new_points, new_shape) ==
    pts \o [i \in 1..Len(new_points) |->
               [point |-> new_points[i], raised |-> new_shape /\ i = 1]]

RECURSIVE Concat(_)
\* for path in paths: for subpath in path
Concat(paths) == IF paths = <<>> THEN <<>> ELSE Head(paths) \o Concat(Tail(paths))

\* the flattener of a known primitive
Flatten(lx, ly, opts, solve, subpath) ==
    CASE subpath.kind = "Line" -> _line_to_points(lx, ly, subpath)
      [] subpath.kind = "Arc" ->
            _arc_to_points(lx, ly, opts.curve_resolution, subpath, solve[subpath])
      [] subpath.kind = "QuadraticBezier" ->
            _quadricbezier_to_points(lx, ly, opts.curve_resolution, subpath)
      [] subpath.kind = "CubicBezier" ->
            _cubicbezier_to_points(lx, ly, opts.curve_resolution, subpath)

IsKnown(subpath) ==
    subpath.kind \in {"Line", "Arc", "QuadraticBezier", "CubicBezier"}

\* the loop body of _get_points up to the type dispatch: a primitive that
\* does not start where the previous one ended closes the shape with an
\* overcut point (when the last flattened primitive gave two points or more),
\* sets the pending raise and starts a new shape.  st holds the locals and
\* the fields of self the loop writes.
Broken(st, opts, subpath) ==
    LET break == subpath.start # st.prev_end
        cut == break /\ Len(st.new_points) >= 2
    IN  [st EXCEPT
            !.points =
                IF cut
                THEN _extend_gcode_points(st.points,
                        <<_get_overcut(opts, st.shape_start,
                                       st.new_points[Len(st.new_points) - 1])>>,
                        FALSE)
                ELSE st.points,
            !.raised = st.raised \/ break,
            !.shape_start = IF break THEN subpath.start ELSE st.shape_start]

\* the rest of the loop body for primitive number k, flattened to f.  st.log
\* notes, for every primitive that was flattened, its number, where its
\* first point went in self.points and how many points it gave.
Extended(st, f, subpath, k) ==
    [points |-> _extend_gcode_points(st.points, f.points, st.raised),
     new_points |-> f.points,
     prev_end |-> subpath.end,
     shape_start |-> st.shape_start,
     raised |-> FALSE,
     largest_x |-> f.largest_x,
     largest_y |-> f.largest_y,
     log |-> Append(st.log, [prim |-> k, at |-> Len(st.points) + 1,
                             n |-> Len(f.points)])]

\* one turn of the loop of _get_points; a primitive of another type leaves
\* the loop at "continue"
LoopBody(st, opts, solve, subpath, k) ==
    IF IsKnown(subpath)
    THEN Extended(Broken(st, opts, subpath),
                  Flatten(st.largest_x, st.largest_y, opts, solve, subpath),
                  subpath, k)
    ELSE Broken(st, opts, subpath)

RECURSIVE Loop(_, _, _, _, _)
Loop(st, opts, solve, subpaths, k) ==
    IF k > Len(subpaths) THEN st
    ELSE Loop(LoopBody(st, opts, solve, subpaths[k], k), opts, solve, subpaths,
              k + 1)

\* the end of _get_points: the overcut point that closes the last shape
LastOvercut(st, opts) ==
    IF Len(st.new_points) < 2
    THEN \* new_points[-2] fails
         [err |-> "IndexError", points |-> st.points,
          largest_x |-> st.largest_x, largest_y |-> st.largest_y,
          log |-> st.log]
    ELSE [err |-> "",
          points |-> _extend_gcode_points(st.points,
              <<_get_overcut(opts, st.shape_start,
                             st.new_points[Len(st.new_points) - 1])>>,
              FALSE),
          largest_x |-> st.largest_x, largest_y |-> st.largest_y,
          log |-> st.log]

\* _get_points(paths) from bounding box (lx, ly): the new self.points and
\* bounding box, err = "IndexError" when an index is out of range (the
\* fields are then as the exception leaves them), and the log of the loop
_get_points(lx, ly, opts, solve, paths) ==
    IF paths = <<>> \/ paths[1] = <<>>
    THEN \* paths[0][0] fails, after self.points.clear()
         [err |-> "IndexError", points |-> <<>>, largest_x |-> lx,
          largest_y |-> ly, log |-> <<>>]
    ELSE LastOvercut(Loop([points |-> <<>>, new_points |-> <<>>,
                           prev_end |-> CI(0, 0),
                           shape_start |-> paths[1][1].start,
                           raised |-> FALSE,
                           largest_x |-> lx, largest_y |-> ly, log |-> <<>>],
                          opts, solve, Concat(paths), 1),
                     opts)

----------------------------------------------------------------------------
(* GcodeGenerator.generate_gcode *)

\* abs(line.start - line.end) < 0.001
IsTiny(line) == RLt(CNorm2(CSub(line.start, line.end)), Rat(1, 1000000))

\* DropTinyLine without the test of the length: any last Line is deleted
DropTinyLine_any(paths) ==
    LET last == paths[Len(paths)]
        seg == last[Len(last)]
    IN  IF seg.kind = "Line"
        THEN [paths EXCEPT ![Len(paths)] = SubSeq(last, 1, Len(last) - 1)]
        ELSE paths

\* paths after "del paths[-1][-1]" when the last primitive is a tiny Line
DropTinyLine(paths) ==
    LET last == paths[Len(paths)]
        seg == last[Len(last)]
    IN  IF seg.kind = "Line" /\ IsTiny(seg)
        THEN [paths EXCEPT ![Len(paths)] = SubSeq(last, 1, Len(last) - 1)]
        ELSE paths

RECURSIVE PointsGcode(_, _)
\* for point in self.points: self.gcode.extend(point.get_gcode(self.options))
PointsGcode(pts, opts) ==
    IF pts = <<>> THEN <<>>
    ELSE get_gcode(Head(pts), opts) \o PointsGcode(Tail(pts), opts)

\* Serialized without the header
Serialized_no_header(g, opts, paths) ==
    [err |-> g.err,
     gcode |-> IF g.err # "" THEN <<>>
               ELSE opts.start_gcode \o PointsGcode(g.points, opts)
                    \o opts.end_gcode,
     points |-> g.points,
     largest_x |-> g.largest_x, largest_y |-> g.largest_y,
     log |-> g.log, paths |-> paths]

\* the gcode of the points g = _get_points(paths) gave
Serialized(g, opts, paths) ==
    [err |-> g.err,
     gcode |-> IF g.err # "" THEN <<>>
               ELSE HEADER \o opts.start_gcode
                    \o PointsGcode(g.points, opts) \o opts.end_gcode,
     points |-> g.points,
     largest_x |-> g.largest_x, largest_y |-> g.largest_y,
     log |-> g.log, paths |-> paths]

\* generate_gcode on the parsed paths: the new gcode, points and bounding
\* box, and the error that ended it, if any
generate_gcode(lx, ly, pts, opts, solve, parsed) ==
    IF parsed = <<>> \/ parsed[Len(parsed)] = <<>>
    THEN \* paths[-1][-1] fails, after self.gcode.clear()
         [err |-> "IndexError", gcode |-> <<>>, points |-> pts,
          largest_x |-> lx, largest_y |-> ly, log |-> <<>>,
          paths |-> parsed]
    ELSE Serialized(_get_points(lx, ly, opts, solve, DropTinyLine(parsed)),
                    opts, DropTinyLine(parsed))

\* The scale factor of the bounding box (lx, ly) under the maximum extent
\* of the options: 1 without a maximum, otherwise the smaller of max/observed
\* over the two axes.  lx and ly are not zero.
_get_scale(opts, lx, ly) ==
    IF opts.max_point = <<>> THEN RI(1)
    ELSE IF RLt(RDiv(opts.max_point[1].real, lx), RDiv(opts.max_point[1].imag, ly))
         THEN RDiv(opts.max_point[1].real, lx)
         ELSE RDiv(opts.max_point[1].imag, ly)

----------------------------------------------------------------------------
(* svg2gcode.gcode_generator.get_scale: the scale factor of the older      *)
(* generator, under the module's maximum extents MAX_X and MAX_Y.  An       *)
(* extent that is not set is None, modelled as <<>>; a set extent m is     *)
(* <<m>>.                                                                  *)

MAX_X == 100
MAX_Y == 50

\* Python's truth value of an extent or of a scale: None and 0 are false
Truthy(v) == v # <<>> /\ ~RIsZero(v[1])

\* get_scale with the larger of the two candidate factors
get_scale_largest(max_x, max_y, x, y) ==
    IF (Truthy(max_x) /\ RIsZero(x)) \/ (Truthy(max_y) /\ RIsZero(y))
    THEN [err |-> "ZeroDivisionError", scale |-> RI(0)]
    ELSE IF Truthy(max_x) /\ Truthy(max_y)
         THEN [err |-> "",
               scale |-> RMax(RDiv(max_x[1], x), RDiv(max_y[1], y))]
         ELSE [err |-> "",
               scale |-> IF Truthy(max_x) THEN RDiv(max_x[1], x)
                         ELSE IF Truthy(max_y) THEN RDiv(max_y[1], y)
                         ELSE RI(1)]

\* the last three returns of get_scale: x_scale and y_scale are None (<<>>)
\* or the quotient of their axis
ScaleOf(x_scale, y_scale) ==
    IF Truthy(x_scale) /\ Truthy(y_scale)
    THEN IF RLt(x_scale[1], y_scale[1]) THEN x_scale[1] ELSE y_scale[1]
    ELSE IF Truthy(x_scale) /\ ~Truthy(y_scale) THEN x_scale[1]
    ELSE IF ~Truthy(x_scale) /\ Truthy(y_scale) THEN y_scale[1]
    ELSE RI(1)

\* get_scale(x, y) under the extents max_x, max_y: the scale, or the
\* exception of a division by zero
get_scale(max_x, max_y, x, y) ==
    IF (Truthy(max_x) /\ RIsZero(x)) \/ (Truthy(max_y) /\ RIsZero(y))
    THEN [err |-> "ZeroDivisionError", scale |-> RI(0)]
    ELSE [err |-> "",
          scale |-> ScaleOf(IF Truthy(max_x) THEN <<RDiv(max_x[1], x)>> ELSE <<>>,
                            IF Truthy(max_y) THEN <<RDiv(max_y[1], y)>> ELSE <<>>)]

----------------------------------------------------------------------------
(* The options widget (slicing_options.py).  A parsed TOML document is a    *)
(* record of its three tables, point, machine and gcode; a table that is   *)
(* not in the file is None, modelled as <<>>, a table t that is there is   *)
(* <<t>>, and so for each key of a table.  The numbers of the point table  *)
(* are rationals, those of the machine table integers, and the values of   *)
(* the gcode table lists of lines.                                         *)

DEFAULT_TOML_PATH == "~/AppData/Roaming/svg-slicer/svg-slicer.toml"
DEFAULT_START_POINT == CI(1, 1)
DEFAULT_MAX_POINT == <<>>
DEFAULT_NORMAL_FEEDRATE == 500
DEFAULT_TRAVEL_FEEDRATE == 4000
DEFAULT_CURVE_RESOLUTION == 20
DEFAULT_START_GCODE ==
    <<"; start", "M107 ; turn fan off", "G21 ; use millimeter",
      "G90 ; absolute coordinates", "M82 ; absolute E coordinates",
      "G92 E0 ; set E to 0", "G28 ; home xyz axes", "G1 F500 ; set feedrate",
      "">>
DEFAULT_END_GCODE == <<"; end">>
DEFAULT_LIFT_GCODE == <<"G1 Z10">>
DEFAULT_UNLIFT_GCODE == <<"G1 Z0">>

\* data.get(name): the table, or None; an empty table is false as None is
IsEmptyTable(t) == \A k \in DOMAIN t : t[k] = <<>>
HasTable(table) == table # <<>> /\ ~IsEmptyTable(table[1])

\* "v or default" for a rational, an integer and a list
OrRat(v, default) == IF v # <<>> /\ ~RIsZero(v[1]) THEN v[1] ELSE default
OrInt(v, default) == IF v # <<>> /\ v[1] # 0 THEN v[1] ELSE default
OrList(v, default) == IF v # <<>> /\ v[1] # <<>> THEN v[1] ELSE default

\* the options load_options sets from the parsed document data
load_options(data) ==
    [start_point |->
        IF HasTable(data.point)
        THEN Cx(OrRat(data.point[1].start_x, RI(0)),
                OrRat(data.point[1].start_y, RI(0)))
        ELSE DEFAULT_START_POINT,
     max_point |->
        IF HasTable(data.point) /\ Truthy(data.point[1].max_x)
                                /\ Truthy(data.point[1].max_y)
        THEN <<Cx(data.point[1].max_x[1], data.point[1].max_y[1])>>
        ELSE <<>>,
     normal_feedrate |->
        IF HasTable(data.machine)
        THEN OrInt(data.machine[1].normal_feedrate, DEFAULT_NORMAL_FEEDRATE)
        ELSE DEFAULT_NORMAL_FEEDRATE,
     travel_feedrate |->
        IF HasTable(data.machine)
        THEN OrInt(data.machine[1].travel_feedrate, DEFAULT_TRAVEL_FEEDRATE)
        ELSE DEFAULT_TRAVEL_FEEDRATE,
     curve_resolution |->
        IF HasTable(data.machine)
        THEN OrInt(data.machine[1].curve_resolution, DEFAULT_CURVE_RESOLUTION)
        ELSE DEFAULT_CURVE_RESOLUTION,
     start_gcode |->
        IF HasTable(data.gcode)
        THEN OrList(data.gcode[1].start, DEFAULT_START_GCODE)
        ELSE DEFAULT_START_GCODE,
     end_gcode |->
        IF HasTable(data.gcode)
        THEN OrList(data.gcode[1].end, DEFAULT_START_GCODE)
        ELSE DEFAULT_START_GCODE,
     lift_gcode |->
        IF HasTable(data.gcode)
        THEN OrList(data.gcode[1].lift, DEFAULT_LIFT_GCODE)
        ELSE DEFAULT_LIFT_GCODE,
     unlift_gcode |->
        IF HasTable(data.gcode)
        THEN OrList(data.gcode[1].unlift, DEFAULT_UNLIFT_GCODE)
        ELSE DEFAULT_UNLIFT_GCODE]

\* the options _load_default sets when there is no options file
DefaultOptions ==
    [start_point |-> DEFAULT_START_POINT, max_point |-> DEFAULT_MAX_POINT,
     normal_feedrate |-> DEFAULT_NORMAL_FEEDRATE,
     travel_feedrate |-> DEFAULT_TRAVEL_FEEDRATE,
     curve_resolution |-> DEFAULT_CURVE_RESOLUTION,
     start_gcode |-> DEFAULT_START_GCODE, end_gcode |-> DEFAULT_END_GCODE,
     lift_gcode |-> DEFAULT_LIFT_GCODE, unlift_gcode |-> DEFAULT_UNLIFT_GCODE]

\* SlicingOptions.get_dict: the three tables of the options self; a
\* max_point that is None or 0j gives None for both of its keys
get_dict(self) ==
    [machine |-> <<[normal_feedrate |-> <<self.normal_feedrate>>,
                    travel_feedrate |-> <<self.travel_feedrate>>,
                    curve_resolution |-> <<self.curve_resolution>>]>>,
     gcode |-> <<[start |-> <<self.start_gcode>>, end |-> <<self.end_gcode>>,
                  lift |-> <<self.lift_gcode>>,
                  unlift |-> <<self.unlift_gcode>>]>>,
     point |-> <<[start_x |-> <<self.start_point.real>>,
                  start_y |-> <<self.start_point.imag>>,
                  max_x |-> IF self.max_point # <<>> /\ self.max_point[1] # CI(0, 0)
                            THEN <<self.max_point[1].real>> ELSE <<>>,
                  max_y |-> IF self.max_point # <<>> /\ self.max_point[1] # CI(0, 0)
                            THEN <<self.max_point[1].imag>> ELSE <<>>]>>]

RECURSIVE Join(_)
\* "\n".join(lines)
Join(lines) ==
    IF lines = <<>> THEN ""
    ELSE IF Len(lines) = 1 THEN lines[1]
    ELSE lines[1] \o "\n" \o Join(Tail(lines))

\* _update_option_text_fields: the boxes bx after the options opts are
\* written to them; the boxes of the maximum are written only when it is set
_update_option_text_fields(bx, opts) ==
    [start_x |-> FloatText(opts.start_point.real),
     start_y |-> FloatText(opts.start_point.imag),
     max_x |-> IF opts.max_point # <<>> THEN FloatText(opts.max_point[1].real)
               ELSE bx.max_x,
     max_y |-> IF opts.max_point # <<>> THEN FloatText(opts.max_point[1].imag)
               ELSE bx.max_y,
     normal_feedrate |-> IntText(opts.normal_feedrate),
     travel_feedrate |-> IntText(opts.travel_feedrate),
     curve_resolution |-> IntText(opts.curve_resolution),
     start_gcode |-> Join(opts.start_gcode),
     end_gcode |-> Join(opts.end_gcode),
     lift_gcode |-> Join(opts.lift_gcode),
     unlift_gcode |-> Join(opts.unlift_gcode)]

----------------------------------------------------------------------------
(* helpers.save_file.  The dialog, QSaveFile and the message box are Qt's:  *)
(* the dialog hands back a file name or "" (nothing chosen); open and      *)
(* commit of the QSaveFile each succeed or fail; a QSaveFile writes to a   *)
(* temporary file and puts it in place of the named file on a successful   *)
(* commit only.  The result is [value, opened, files, warned]: the value   *)
(* returned (None is <<>>), whether a file was opened, the file system     *)
(* afterwards and the warnings shown.                                      *)

\* save_file that returns the file name whether or not the commit succeeded
save_file_unchecked(fs, file_name, file_contents, opens, commits, reason) ==
    IF file_name = ""
    THEN [value |-> <<>>, opened |-> FALSE, files |-> fs, warned |-> <<>>]
    ELSE IF opens
    THEN [value |-> <<file_name>>, opened |-> TRUE,
          files |-> IF commits
                    THEN [fs EXCEPT ![file_name] = <<file_contents>>] ELSE fs,
          warned |-> <<>>]
    ELSE [value |-> <<>>, opened |-> FALSE, files |-> fs,
          warned |-> <<"Cannot open file " \o file_name \o ":\n" \o reason
                       \o ".">>]

\* save_file on the file system fs: the dialog gave file_name, open and
\* commit turn out as opens and commits, and errorString() is reason
save_file(fs, file_name, file_contents, opens, commits, reason) ==
    IF file_name = ""
    THEN [value |-> <<>>, opened |-> FALSE, files |-> fs, warned |-> <<>>]
    ELSE IF opens
    THEN IF commits
         THEN [value |-> <<file_name>>, opened |-> TRUE,
               files |-> [fs EXCEPT ![file_name] = <<file_contents>>],
               warned |-> <<>>]
         ELSE [value |-> <<>>, opened |-> TRUE, files |-> fs,
               warned |-> <<"Cannot write file " \o file_name \o ":\n"
                            \o reason \o ".">>]
    ELSE [value |-> <<>>, opened |-> FALSE, files |-> fs,
          warned |-> <<"Cannot open file " \o file_name \o ":\n" \o reason
                       \o ".">>]

----------------------------------------------------------------------------
(* The gcode viewer's command parser (svg2gcode/gcode_viewer.py).           *)
(* GCODE_G0_G1_REGEX is ([XYZ])([-+]?\d*\.?\d+); a match of its second     *)
(* group from position j of s is found as the regex engine finds it.       *)

Char(s, i) == IF i >= 1 /\ i <= Len(s) THEN SubSeq(s, i, i) ELSE ""
IsDigit(c) == c \in {"0", "1", "2", "3", "4", "5", "6", "7", "8", "9"}
DigitValue(c) ==
    CASE c = "0" -> 0 [] c = "1" -> 1 [] c = "2" -> 2 [] c = "3" -> 3
      [] c = "4" -> 4 [] c = "5" -> 5 [] c = "6" -> 6 [] c = "7" -> 7
      [] c = "8" -> 8 [] c = "9" -> 9

RECURSIVE DigitsEnd(_, _)
\* the first position from i on that holds no digit
DigitsEnd(s, i) == IF IsDigit(Char(s, i)) THEN DigitsEnd(s, i + 1) ELSE i

RECURSIVE NatOf(_, _, _, _)
\* the number the digits s[i..e-1] spell, after acc
NatOf(s, i, e, acc) ==
    IF i >= e THEN acc ELSE NatOf(s, i + 1, e, acc * 10 + DigitValue(Char(s, i)))

\* where the digits start, after an optional sign at j
AfterSign(s, j) == IF Char(s, j) \in {"-", "+"} THEN j + 1 ELSE j

\* the position after the match of [-+]?\d*\.?\d+ at j; j when there is none
NumberEnd(s, j) ==
    LET d1 == DigitsEnd(s, AfterSign(s, j))
    IN  IF Char(s, d1) = "." /\ IsDigit(Char(s, d1 + 1))
        THEN DigitsEnd(s, d1 + 1)
        ELSE IF d1 > AfterSign(s, j) THEN d1 ELSE j

\* float(value) of the match s[j..e-1]
FloatOf(s, j, e) ==
    LET d1 == DigitsEnd(s, AfterSign(s, j))
        frac == IF d1 < e THEN e - d1 - 1 ELSE 0
        sign == IF Char(s, j) = "-" THEN -1 ELSE 1
    IN  Rat(sign * NatOf(s, e - frac, e,
                         NatOf(s, AfterSign(s, j), d1, 0)),
            RPow(RI(10), frac)[1])

RECURSIVE FindAll(_, _, _)
\* dict(GCODE_G0_G1_REGEX.findall(command)), from position i on and after
\* the matches in coords: the last value of every axis, converted to float
FindAll(s, i, coords) ==
    IF i > Len(s) THEN coords
    ELSE IF Char(s, i) \in {"X", "Y", "Z"} /\ NumberEnd(s, i + 1) > i + 1
    THEN FindAll(s, NumberEnd(s, i + 1),
                 [coords EXCEPT ![Char(s, i)] =
                     <<FloatOf(s, i + 1, NumberEnd(s, i + 1))>>])
    ELSE FindAll(s, i + 1, coords)

\* what _process_g0_g1 returns for the matches coords
Stripped(coords) ==
    IF coords.X = <<>> /\ coords.Y = <<>> /\ coords.Z = <<>> THEN <<>>
    ELSE IF coords.X # <<>> /\ coords.Y # <<>> /\ coords.Z # <<>> THEN <<>>
    ELSE <<coords>>

\* GcodeViewer._process_g0_g1(command): None (<<>>), or <<[X, Y, Z]>> with
\* None (<<>>) for an axis the command does not name
_process_g0_g1(command) ==
    Stripped(FindAll(command, 1, [X |-> <<>>, Y |-> <<>>, Z |-> <<>>]))

----------------------------------------------------------------------------
(* SlicingOptionsWiget.update_options: the options read back from the text  *)
(* of the input boxes.  toPlainText() hands back the text setPlainText()   *)
(* was given.                                                              *)

\* the exponent part of a float's text from place e on (e-05, e+16): the
\* power of ten and the place after it; no exponent is the power 0
ExponentAt(s, e) ==
    IF Char(s, e) = "e" /\ DigitsEnd(s, AfterSign(s, e + 1)) > AfterSign(s, e + 1)
    THEN [power |-> (IF Char(s, e + 1) = "-" THEN -1 ELSE 1)
                    * NatOf(s, AfterSign(s, e + 1),
                            DigitsEnd(s, AfterSign(s, e + 1)), 0),
          end |-> DigitsEnd(s, AfterSign(s, e + 1))]
    ELSE [power |-> 0, end |-> e]

\* _read_float: float(text), None (<<>>) on a ValueError
_read_float(text) ==
    LET e == NumberEnd(text, 1)
        x == ExponentAt(text, e)
    IN  IF e = 1 \/ x.end # Len(text) + 1 THEN <<>>
        ELSE IF x.power < 0
        THEN <<RDiv(FloatOf(text, 1, e), RPow(RI(10), -x.power))>>
        ELSE <<RMul(FloatOf(text, 1, e), RPow(RI(10), x.power))>>

\* _read_int: int(text), None (<<>>) on a ValueError
_read_int(text) ==
    LET d == AfterSign(text, 1)
    IN  IF DigitsEnd(text, d) > d /\ DigitsEnd(text, d) = Len(text) + 1
        THEN <<(IF Char(text, 1) = "-" THEN -1 ELSE 1)
               * NatOf(text, d, Len(text) + 1, 0)>>
        ELSE <<>>

RECURSIVE LineEnd(_, _)
\* the place of the first line break of s from i on, Len(s) + 1 without one
LineEnd(s, i) ==
    IF i > Len(s) \/ Char(s, i) = "\n" THEN i ELSE LineEnd(s, i + 1)

RECURSIVE splitlines(_)
\* str.splitlines(): a line break at the end starts no further line
splitlines(s) ==
    IF s = "" THEN <<>>
    ELSE <<SubSeq(s, 1, LineEnd(s, 1) - 1)>>
         \o (IF LineEnd(s, 1) >= Len(s) THEN <<>>
             ELSE splitlines(SubSeq(s, LineEnd(s, 1) + 1, Len(s))))

\* the options update_options sets from the boxes bx
update_options(bx) ==
    [start_point |-> Cx(OrRat(_read_float(bx.start_x), RI(0)),
                        OrRat(_read_float(bx.start_y), RI(0))),
     max_point |-> <<Cx(OrRat(_read_float(bx.max_x), RI(0)),
                        OrRat(_read_float(bx.max_y), RI(0)))>>,
     normal_feedrate |-> OrInt(_read_int(bx.normal_feedrate),
                               DEFAULT_NORMAL_FEEDRATE),
     travel_feedrate |-> OrInt(_read_int(bx.travel_feedrate),
                               DEFAULT_TRAVEL_FEEDRATE),
     curve_resolution |-> OrInt(_read_int(bx.curve_resolution),
                                DEFAULT_CURVE_RESOLUTION),
     start_gcode |-> OrList(<<splitlines(bx.start_gcode)>>, DEFAULT_START_GCODE),
     end_gcode |-> OrList(<<splitlines(bx.end_gcode)>>, DEFAULT_END_GCODE),
     lift_gcode |-> OrList(<<splitlines(bx.lift_gcode)>>, DEFAULT_LIFT_GCODE),
     unlift_gcode |-> OrList(<<splitlines(bx.unlift_gcode)>>,
                             DEFAULT_UNLIFT_GCODE)]

----------------------------------------------------------------------------
(* Inputs *)

NoPoint == <<>>     \* max_point = None; a set max_point c is <<c>>

\* two SlicingOptions values with curve resolution res
SlicingOptions(profile, res) ==
    IF profile = "A"
    THEN [start_point |-> CI(0, 0), max_point |-> NoPoint,
          normal_feedrate |-> 500, travel_feedrate |-> 4000,
          curve_resolution |-> res,
          start_gcode |-> <<"; start">>, end_gcode |-> <<"; end">>,
          lift_gcode |-> <<"G1 Z10">>, unlift_gcode |-> <<"G1 Z0">>]
    ELSE [start_point |-> Cx(RI(1), Rat(1, 2)), max_point |-> <<CI(1, 1)>>,
          normal_feedrate |-> 500, travel_feedrate |-> 1000,
          curve_resolution |-> res,
          start_gcode |-> <<"; start", "G21 ; use millimeter", "">>,
          end_gcode |-> <<"; end">>,
          lift_gcode |-> <<"G1 Z10", "M400">>, unlift_gcode |-> <<>>]

\* the options o with the blade offset _get_overcut reads from them
WithBladeOffset(o, blade) ==
    [start_point |-> o.start_point, max_point |-> o.max_point,
     normal_feedrate |-> o.normal_feedrate,
     travel_feedrate |-> o.travel_feedrate,
     curve_resolution |-> o.curve_resolution,
     blade_offset |-> RI(blade),
     start_gcode |-> o.start_gcode, end_gcode |-> o.end_gcode,
     lift_gcode |-> o.lift_gcode, unlift_gcode |-> o.unlift_gcode]

Opt(profile, res, blade) == WithBladeOffset(SlicingOptions(profile, res), blade)

OptionSet == {Opt(p, r, b) : p \in {"A", "B"}, r \in 1..MaxRes, b \in {0, 1}}

\* the points the flatteners are tried on
Pts == {CI(0, 0), CI(MaxCoord, 1), CI(1, MaxCoord), CI(-1, MaxCoord)}

Lines == {Line(s, e) : s \in Pts, e \in Pts}
Quadratics == {QuadraticBezier(s, c, e) : s \in Pts, c \in Pts, e \in Pts}
Cubics ==
    {CubicBezier(s, c[1], c[2], e) :
        s \in Pts, e \in Pts,
        c \in {<<CI(0, 0), CI(MaxCoord, 1)>>, <<CI(1, MaxCoord + 1), CI(-1, 0)>>,
               <<CI(MaxCoord + 1, -1), CI(MaxCoord + 1, MaxCoord)>>}}

\* arcs whose circle (of radius |radius|) passes through start and end with
\* the angles on quarter turns (one of radius zero, one that starts at angle
\* zero of its circle), and one (the last) whose chord is longer than the
\* diameter, as in test_converting_arc_to_points
Arcs ==
    {Arc(CI(0, 1), CI(1, 0), RI(0), CI(2, 1)),
     Arc(CI(0, 0), CI(1, 1), RI(0), CI(2, 2)),
     Arc(CI(0, 0), CI(1, 0), RI(90), CI(1, 1)),
     Arc(CI(1, 1), CI(0, 0), RI(0), CI(1, 1)),
     Arc(CI(2, 1), CI(1, 0), RI(0), CI(1, 0)),
     Arc(CI(0, 0), CI(1, 1), RI(0), CI(2 * MaxCoord, 2 * MaxCoord))}

\* the points get_gcode is tried on: integral, fractional and negative
Coords == {RI(-1), RI(0), Rat(1, 2), RI(1), Rat(11, 10)}
GcodePoints == {[point |-> Cx(x, y), raised |-> r] :
                    x \in Coords, y \in Coords, r \in BOOLEAN}

\* the primitives the assembler is tried on
PO == CI(0, 0)
PA == CI(MaxCoord, 0)
PB == CI(MaxCoord, MaxCoord)
PrimPool ==
    {Line(PO, PB),
     Line(PO, CI(10, 10)),
     Line(PB, PA),
     \* shorter than 0.001
     Line(PA, Cx(RAdd(RI(MaxCoord), Rat(1, 1024)), RI(0))),
     QuadraticBezier(PA, CI(MaxCoord + 1, MaxCoord), PO),
     \* a half circle of diameter PB-PA
     Arc(PB, Cx(Rat(MaxCoord, 2), RI(0)), RI(0), PA),
     Other(PB, PO)}

RECURSIVE SeqsUpTo(_, _)
\* the sequences over S of length at most n
SeqsUpTo(S, n) ==
    IF n = 0 THEN {<<>>}
    ELSE LET shorter == SeqsUpTo(S, n - 1)
         IN  shorter \cup {Append(q, x) : q \in shorter, x \in S}

\* parsed path sets: one path, two paths, or three with the middle one empty
PathSets ==
    {<<>>}
    \cup {<<p>> : p \in SeqsUpTo(PrimPool, MaxPrims)}
    \cup {<<p, q>> : p \in SeqsUpTo(PrimPool, MaxPrims - 1),
                     q \in SeqsUpTo(PrimPool, 1)}
    \cup {<<p, <<>>, q>> : p \in SeqsUpTo(PrimPool, 1),
                           q \in SeqsUpTo(PrimPool, 1)}

ArcsOf(paths) == {a \in PrimPool : a.kind = "Arc" /\ \E i \in 1..Len(paths) :
                      \E j \in 1..Len(paths[i]) : paths[i][j] = a}

\* the solver's possible results for each arc of the pools
Solved ==
    {[arc |-> a, sols |-> {s : s \in fsolve(a)}] :
        a \in Arcs \cup {p \in PrimPool : p.kind = "Arc"}}

\* the pairs of an arc and one possible result of the solver for it
Solutions == {as : as \in UNION {{<<r.arc, s>> : s \in r.sols} : r \in Solved}}

\* fsolve is a function of its input: one result for each arc
Oracles(arcs) ==
    {f \in [arcs -> {as[2] : as \in Solutions}] :
        \A a \in arcs : <<a, f[a]>> \in Solutions}

\* the maximum extents and the observed bounding boxes get_scale is tried on
Extents == {<<>>, <<RI(MAX_X)>>, <<RI(MAX_Y)>>, <<RI(MaxCoord)>>}
Observed == {RI(0), Rat(1, 2), RI(1), RI(MaxCoord), RI(MAX_Y), RI(2 * MAX_X)}

\* the points and options _get_overcut is tried on: distances that are
\* whole numbers and distances that are not
OvercutPts == {CI(0, 0), CI(3, 0), CI(3, 4), CI(MaxCoord, 1), CI(-1, MaxCoord)}
OvercutOptions == {Opt("A", MaxRes, b) : b \in 0..2}

\* the input boxes of a widget that was given its options: all empty
BoxNames ==
    {"start_x", "start_y", "max_x", "max_y", "normal_feedrate",
     "travel_feedrate", "curve_resolution", "start_gcode", "end_gcode",
     "lift_gcode", "unlift_gcode"}
NoText == [b \in BoxNames |-> ""]

\* the files a save dialog may name, what is written to them and the
\* error strings of a QSaveFile
FileNames == {"out.gcode", "svg-slicer.toml"}
Contents == {"", "G1 X1 Y1\n"}
Reasons == {"Permission denied", "No space left on device"}

\* the tables of the options files load_options is tried on: a table that
\* is missing, empty, complete, or has some keys, zeros and negative numbers
PointTable(sx, sy, mx, my) ==
    <<[start_x |-> sx, start_y |-> sy, max_x |-> mx, max_y |-> my]>>
MachineTable(nf, tf, cr) ==
    <<[normal_feedrate |-> nf, travel_feedrate |-> tf, curve_resolution |-> cr]>>
GcodeTable(st, en, li, un) ==
    <<[start |-> st, end |-> en, lift |-> li, unlift |-> un]>>

PointTables ==
    {<<>>,
     PointTable(<<>>, <<>>, <<>>, <<>>),
     PointTable(<<RI(MaxCoord)>>, <<Rat(1, 2)>>, <<>>, <<>>),
     PointTable(<<>>, <<>>, <<RI(100)>>, <<RI(50)>>),
     PointTable(<<RI(0)>>, <<RI(3)>>, <<RI(100)>>, <<>>)}
MachineTables ==
    {<<>>,
     MachineTable(<<600>>, <<3000>>, <<10>>),
     MachineTable(<<0>>, <<>>, <<1>>),
     MachineTable(<<-5>>, <<3000>>, <<>>)}
GcodeTables ==
    {<<>>,
     GcodeTable(<<<<"G28", "G90">>>>, <<<<"M2">>>>, <<<<"G1 Z5">>>>,
                <<<<"G1 Z1">>>>),
     GcodeTable(<<<<>>>>, <<>>, <<<<"G1 Z5", "M400">>>>, <<>>)}

OptionFiles ==
    {[path |-> "machine.toml",
      data |-> [point |-> p, machine |-> m, gcode |-> g]] :
        p \in PointTables, m \in MachineTables, g \in GcodeTables}

\* the points whose gcode the viewer is given: integral, fractional,
\* negative, very small and large coordinates
ViewerCoords == {RI(-1), Rat(1, 2), Rat(-11, 10), Rat(1, 100000), RI(100000)}
ViewerPoints == {[point |-> Cx(x, y), raised |-> r] :
                    x \in ViewerCoords, y \in ViewerCoords, r \in BOOLEAN}
ViewerOptions == {Opt("A", MaxRes, 0), Opt("B", MaxRes, 0)}

----------------------------------------------------------------------------
(* The state machine *)

\* GcodeGenerator.__init__(slicing_options)
InitWith(optset) ==
    /\ options \in optset
    /\ largest_x = RI(0)
    /\ largest_y = RI(0)
    /\ gcode = <<>>
    /\ points = <<>>
    /\ call = [op |-> "__init__"]
    /\ ret = <<>>
    /\ calls = 0
    /\ boxes = NoText
    /\ status = ""
    /\ files = [n \in FileNames |-> <<>>]
    /\ warnings = <<>>

\* the options the conversions run under: no blade offset, a blade offset
\* with the second profile, and a curve resolution of one
GenerateOptions == {Opt("A", MaxRes - 1, 0), Opt("B", MaxRes, 1), Opt("A", 1, 1)}
Init == InitWith(GenerateOptions)

Called(op, arg) ==
    /\ calls < MaxCalls
    /\ calls' = calls + 1
    /\ call' = [op |-> op, arg |-> arg,
                largest_x |-> largest_x, largest_y |-> largest_y]

Flattened(f) ==
    /\ ret' = f.points
    /\ largest_x' = f.largest_x
    /\ largest_y' = f.largest_y
    /\ UNCHANGED <<options, gcode, points, desk>>

LineToPoints ==
    \E line \in Lines :
        /\ Called("_line_to_points", line)
        /\ Flattened(_line_to_points(largest_x, largest_y, line))

QuadricbezierToPoints ==
    \E curve \in Quadratics :
        /\ Called("_quadricbezier_to_points", curve)
        /\ Flattened(_quadricbezier_to_points(largest_x, largest_y,
                        options.curve_resolution, curve))

CubicbezierToPoints ==
    \E curve \in Cubics :
        /\ Called("_cubicbezier_to_points", curve)
        /\ Flattened(_cubicbezier_to_points(largest_x, largest_y,
                        options.curve_resolution, curve))

ArcToPoints ==
    \E as \in Solutions :
        /\ Called("_arc_to_points", as)
        /\ Flattened(_arc_to_points(largest_x, largest_y,
                        options.curve_resolution, as[1], as[2]))

GetGcode ==
    \E self \in GcodePoints :
        /\ Called("get_gcode", self)
        /\ ret' = get_gcode(self, options)
        /\ UNCHANGED <<options, generator, desk>>

\* the fields of self and the results after generate_gcode gave g
Generated(g) ==
    /\ gcode' = g.gcode
    /\ points' = g.points
    /\ largest_x' = g.largest_x
    /\ largest_y' = g.largest_y
    /\ ret' = [err |-> g.err, paths |-> g.paths, log |-> g.log]
    /\ UNCHANGED <<options, desk>>

GenerateGcode ==
    \E parsed \in PathSets : \E solve \in Oracles(ArcsOf(parsed)) :
        /\ Called("generate_gcode", parsed)
        /\ Generated(generate_gcode(largest_x, largest_y, points, options,
                                    solve, parsed))

\* conversions of parsed SVG files
Next == GenerateGcode
Spec == Init /\ [][Next]_vars

\* the flatteners applied to single primitives
FlattenOptions == {Opt("A", r, 0) : r \in 1..MaxRes}
InitFlatten == InitWith(FlattenOptions)
NextFlatten ==
    \/ LineToPoints
    \/ QuadricbezierToPoints
    \/ CubicbezierToPoints
    \/ ArcToPoints
SpecFlatten == InitFlatten /\ [][NextFlatten]_vars

\* get_gcode applied to single points
InitPoint == InitWith(OptionSet)
NextPoint == GetGcode
SpecPoint == InitPoint /\ [][NextPoint]_vars

GetScale ==
    \E max_x \in Extents, max_y \in Extents, x \in Observed, y \in Observed :
        /\ Called("get_scale", [MAX_X |-> max_x, MAX_Y |-> max_y, x |-> x, y |-> y])
        /\ ret' = get_scale(max_x, max_y, x, y)
        /\ UNCHANGED <<options, generator, desk>>

GetOvercut ==
    \E shape_start \in OvercutPts, last_point \in OvercutPts :
        /\ Called("_get_overcut",
                  [shape_start |-> shape_start, last_point |-> last_point])
        /\ ret' = _get_overcut(options, shape_start, last_point)
        /\ UNCHANGED <<options, generator, desk>>

\* _get_overcut applied to single pairs of points
InitOvercut == InitWith(OvercutOptions)
NextOvercut == GetOvercut
SpecOvercut == InitOvercut /\ [][NextOvercut]_vars

\* what load_options leaves: the options, the input boxes and the message
Loaded(opts, message) ==
    /\ options' = opts
    /\ boxes' = _update_option_text_fields(boxes, opts)
    /\ status' = message
    /\ ret' = [err |-> ""]
    /\ UNCHANGED <<generator, files, warnings>>

LoadOptions ==
    \E file \in OptionFiles :
        /\ Called("load_options", file)
        /\ Loaded(load_options(file.data), "Loaded options from: " \o file.path)

\* _load_default: the default options when there is no file at
\* DEFAULT_TOML_PATH, load_options of that file when there is one
\* (it runs in __init__, before any other operation)
LoadDefault ==
    \/ /\ calls = 0
       /\ Called("_load_default", <<>>)
       /\ Loaded(DefaultOptions,
                 "Could not find options file at " \o DEFAULT_TOML_PATH)
    \/ \E file \in OptionFiles :
          /\ calls = 0
          /\ Called("_load_default", <<[file EXCEPT !.path = DEFAULT_TOML_PATH]>>)
          /\ Loaded(load_options(file.data),
                    "Loaded options from: " \o DEFAULT_TOML_PATH)

\* update_options as MainWindow.generate_gcode calls it, after the loads
\* and with the boxes as the last load left them; call keeps the file of
\* that load and the options it had set
UpdateOptions ==
    /\ call.op \in {"load_options", "_load_default"}
    /\ calls' = calls + 1
    /\ call' = [op |-> "update_options", arg |-> call.arg, loaded |-> options,
                largest_x |-> largest_x, largest_y |-> largest_y]
    /\ options' = update_options(boxes)
    /\ ret' = [err |-> ""]
    /\ UNCHANGED <<generator, desk>>

\* the table get_dict makes of the widget's options, loaded again with
\* load_options; call.arg keeps the options the table was made of
LoadDict ==
    /\ Called("get_dict", options)
    /\ Loaded(load_options(get_dict(options)), "Loaded options from: saved.toml")

\* the options widget: made with options given to it, then loading files,
\* reading the options back from the boxes and loading its own table
WidgetOptions == {SlicingOptions("A", MaxRes), SlicingOptions("B", MaxRes)}
InitOptions == InitWith(WidgetOptions)
NextOptions == LoadOptions \/ LoadDefault \/ UpdateOptions \/ LoadDict
SpecOptions == InitOptions /\ [][NextOptions]_vars

\* what save_file leaves
Saved(s) ==
    /\ ret' = [value |-> s.value, opened |-> s.opened]
    /\ files' = s.files
    /\ warnings' = warnings \o s.warned
    /\ UNCHANGED <<options, generator, boxes, status>>

SaveFile ==
    \E file_name \in {""} \cup FileNames, file_contents \in Contents,
       opens \in BOOLEAN, commits \in BOOLEAN, reason \in Reasons :
        /\ Called("save_file",
                  [file_name |-> file_name, file_contents |-> file_contents,
                   opens |-> opens, commits |-> commits, reason |-> reason])
        /\ Saved(save_file(files, file_name, file_contents, opens, commits,
                           reason))

\* files saved one after another
InitSave == InitWith({SlicingOptions("A", MaxRes)})
NextSave == SaveFile
SpecSave == InitSave /\ [][NextSave]_vars

\* the generator's lines of one point, handed to the viewer
GetGcodeForViewer ==
    \E self \in ViewerPoints :
        /\ Called("get_gcode", self)
        /\ ret' = get_gcode(self, options)
        /\ UNCHANGED <<options, generator, desk>>

\* _process_gcode_command sends the commands that start with G0 or G1 to
\* _process_g0_g1; here, line i of the point last serialized
ProcessG0G1 ==
    /\ call.op = "get_gcode"
    /\ \E i \in 1..Len(ret) :
          /\ SubSeq(ret[i], 1, 2) \in {"G0", "G1"}
          /\ Called("_process_g0_g1", [command |-> ret[i], of |-> call.arg])
          /\ ret' = _process_g0_g1(ret[i])
          /\ UNCHANGED <<options, generator, desk>>

\* lines of the generator read back by the viewer
InitViewer == InitWith(ViewerOptions)
NextViewer == GetGcodeForViewer \/ ProcessG0G1
SpecViewer == InitViewer /\ [][NextViewer]_vars

\* get_scale applied to single bounding boxes
InitScale == InitWith({Opt("A", MaxRes, 0)})
NextScale == GetScale
SpecScale == InitScale /\ [][NextScale]_vars

----------------------------------------------------------------------------
(* GcodePoint.get_gcode: the lines of one point (SpecPoint) *)

\* the last call was get_gcode; call.arg is the point and ret the lines
GotGcode == call.op = "get_gcode"

\* point + start_point of the last call, on each axis
CorrectedX == RAdd(call.arg.point.real, options.start_point.real)
CorrectedY == RAdd(call.arg.point.imag, options.start_point.imag)

\* a number as the claims want it written: without fractional part when
\* its value is integral, as the float otherwise
Written(c) ==
    IF RFloor(c) * c[2] = c[1] THEN ToString(RFloor(c)) ELSE FloatText(c)

\* the linear move to the corrected coordinates of the last call
MoveLine == "G1 X" \o Written(CorrectedX) \o " Y" \o Written(CorrectedY)
TravelLine == "G0 F" \o ToString(options.travel_feedrate)
NormalLine == "G0 F" \o ToString(options.normal_feedrate)

\* the positions of ret that hold the linear move
MovesIn(lines) == {i \in 1..Len(lines) : lines[i] = MoveLine}

\* C4: for a raised point get_gcode returns the lift fragment, the travel
\* feed rate, the linear move, the normal feed rate and the unlift fragment,
\* in this order; for a non-raised point it returns the linear move alone.
C4_GetGcodeLines ==
    GotGcode =>
        ret = IF call.arg.raised
              THEN options.lift_gcode \o <<TravelLine, MoveLine, NormalLine>>
                   \o options.unlift_gcode
              ELSE <<MoveLine>>

\* a raised point served under the first profile
C4_Witness ==
    /\ GotGcode
    /\ call.arg.raised
    /\ ret = <<"G1 Z10", "G0 F4000", "G1 X1 Y1", "G0 F500", "G1 Z0">>

\* C5, amended: every point gets exactly one linear move to its corrected
\* coordinates.  For a non-raised point it is the only line.  For a raised
\* point it stands between the two feed-rate lines and before the unlift
\* fragment, so the last line is the end of the unlift fragment (or the
\* normal feed rate when the fragment is empty).
C5_MoveBeforeUnlift ==
    GotGcode =>
        IF call.arg.raised
        THEN /\ MovesIn(ret) = {Len(options.lift_gcode) + 2}
             /\ ret[Len(options.lift_gcode) + 1] = TravelLine
             /\ ret[Len(options.lift_gcode) + 3] = NormalLine
             /\ Len(ret) = Len(options.lift_gcode) + 3 + Len(options.unlift_gcode)
             /\ ret[Len(ret)] # MoveLine
        ELSE MovesIn(ret) = {1} /\ Len(ret) = 1

\* a raised point whose last line is not the move: the unlift fragment is
\* empty and the normal feed rate ends the lines
C5_Witness ==
    /\ GotGcode
    /\ call.arg.raised
    /\ ret = <<"G1 Z10", "M400", "G0 F1000", "G1 X2 Y1.5", "G0 F500">>

\* C5 as stated: the last line of every point is the linear move, for a
\* raised point after the unlift fragment.
C5_MoveLast ==
    GotGcode =>
        /\ ret[Len(ret)] = MoveLine
        /\ call.arg.raised =>
              SubSeq(ret, Len(ret) - Len(options.unlift_gcode), Len(ret) - 1)
                  = options.unlift_gcode

\* C7: in the linear move a corrected coordinate of integral value is
\* written without a fractional part and any other with its full value,
\* X and Y each by its own value.
C7_CoordinateText ==
    GotGcode =>
        \E i \in 1..Len(ret) :
            ret[i] = "G1 X" \o Written(CorrectedX) \o " Y" \o Written(CorrectedY)

\* an integral X next to a fractional Y
C7_Witness ==
    /\ GotGcode
    /\ CorrectedX = RI(1)
    /\ CorrectedY = Rat(11, 10)
    /\ ret = <<"G1 X1 Y1.1">>

----------------------------------------------------------------------------
(* The flatteners, one primitive at a time (SpecFlatten).  call holds the   *)
(* primitive and the bounding box before the call, ret the points.         *)

\* no point of pts lies beyond the bounding box (lx, ly)
Within(pts, lx, ly) ==
    \A i \in 1..Len(pts) : RLe(pts[i].real, lx) /\ RLe(pts[i].imag, ly)

\* C8: _line_to_points returns the start and the end of the line, in this
\* order; afterwards the bounding box covers both and is not smaller than
\* it was before the call.
C8_LineToPoints ==
    call.op = "_line_to_points" =>
        /\ ret = <<call.arg.start, call.arg.end>>
        /\ Within(ret, largest_x, largest_y)
        /\ RLe(call.largest_x, largest_x)
        /\ RLe(call.largest_y, largest_y)

\* a line that lies inside the bounding box an earlier call left
C8_Witness ==
    /\ call.op = "_line_to_points"
    /\ call.arg.start # call.arg.end
    /\ RLt(RMax(call.arg.start.real, call.arg.end.real), largest_x)
    /\ RLt(RMax(call.arg.start.imag, call.arg.end.imag), largest_y)

\* C9: with a curve resolution R of two or more a quadratic or cubic curve
\* is flattened to R points, the first the start and the last the end of
\* the curve, and afterwards the bounding box covers every returned point.
C9_BezierToPoints ==
    (/\ call.op \in {"_quadricbezier_to_points", "_cubicbezier_to_points"}
     /\ options.curve_resolution >= 2) =>
        /\ Len(ret) = options.curve_resolution
        /\ ret[1] = call.arg.start
        /\ ret[Len(ret)] = call.arg.end
        /\ Within(ret, largest_x, largest_y)

\* a cubic curve whose middle sample lies to the right of both of its ends
\* and sets the bounding box
C9_Witness ==
    /\ call.op = "_cubicbezier_to_points"
    /\ Len(ret) = 3
    /\ RLt(call.arg.start.real, ret[2].real)
    /\ RLt(call.arg.end.real, ret[2].real)
    /\ largest_x = ret[2].real

\* |radius| reaches half of the chord from start to end
SpansChord(arc) ==
    RLe(CNorm2(CSub(arc.end, arc.start)), RMul(RI(4), CNorm2(arc.radius)))

\* the two points are less than 1e-6 apart on each axis
Near(a, b) ==
    /\ RLe(RSub(a.real, b.real), Rat(1, 1000000))
    /\ RLe(RSub(b.real, a.real), Rat(1, 1000000))
    /\ RLe(RSub(a.imag, b.imag), Rat(1, 1000000))
    /\ RLe(RSub(b.imag, a.imag), Rat(1, 1000000))

\* C10: for every arc and curve resolution R, _arc_to_points returns R
\* points; when the radius spans the chord the first is the start and the
\* last is the end of the arc, within 1e-6.
C10_ArcToPoints ==
    call.op = "_arc_to_points" =>
        /\ Len(ret) = options.curve_resolution
        /\ SpansChord(call.arg[1]) =>
              /\ Near(ret[1], call.arg[1].start)
              /\ Near(ret[Len(ret)], call.arg[1].end)

\* the solver did not converge in the last call: what it handed back is no
\* root of the arc's system
Diverged == call.op = "_arc_to_points" /\ ~IsRoot(call.arg[1], call.arg[2])

\* C11: when the arc solver does not converge for an arc, the conversion of
\* the arc ends with a GeometryError and no points are produced from the
\* unconverged solution.
C11_ArcGeometryError == Diverged => ret = <<>>

\* the angles sampled in the last call, and the solver's start angle
Sampled == SampledAngles(options.curve_resolution, call.arg[2])
SolvedStart == call.arg[2][3]
SolvedEnd == call.arg[2][4]

\* C24: whatever start and end angles the arc solver returns, after the
\* span rule the end angle is not below the start angle, the sampled angles
\* run from the start angle to the end angle without ever decreasing, and
\* the sweep from start to end is less than a full turn.
C24_SpanRule ==
    call.op = "_arc_to_points" =>
        /\ Len(ret) = Len(Sampled)
        /\ \A i \in 1..Len(ret) :
              ret[i] = ArcPoint(call.arg[1], Cx(call.arg[2][1], call.arg[2][2]),
                                Sampled[i])
        /\ Sampled[1] = SolvedStart
        /\ RLe(SolvedStart, SpanEnd(SolvedStart, SolvedEnd))
        /\ \A i \in 1..(Len(Sampled) - 1) : RLe(Sampled[i], Sampled[i + 1])
        /\ RLt(RSub(SpanEnd(SolvedStart, SolvedEnd), SolvedStart), RI(4))

----------------------------------------------------------------------------
(* get_scale (SpecScale).  call.arg holds the extents and the observed      *)
(* bounding box, ret the scale or the exception.                           *)

GotScale == call.op = "get_scale"

\* the axis has a maximum extent
Constrained(m) == m # <<>>

\* C12: the scale is 1 when no maximum extent is set, max/observed of the
\* constrained axis when one axis is constrained, and the smaller of the two
\* quotients when both are, so that the scaled bounding box fits both.
C12_ScaleFactor ==
    (GotScale /\ ret.err = "") =>
        LET a == call.arg
        IN  /\ (~Constrained(a.MAX_X) /\ ~Constrained(a.MAX_Y)) =>
                    ret.scale = RI(1)
            /\ (Constrained(a.MAX_X) /\ ~Constrained(a.MAX_Y)) =>
                    RMul(ret.scale, a.x) = a.MAX_X[1]
            /\ (~Constrained(a.MAX_X) /\ Constrained(a.MAX_Y)) =>
                    RMul(ret.scale, a.y) = a.MAX_Y[1]
            /\ (Constrained(a.MAX_X) /\ Constrained(a.MAX_Y)) =>
                    /\ RLe(RMul(ret.scale, a.x), a.MAX_X[1])
                    /\ RLe(RMul(ret.scale, a.y), a.MAX_Y[1])
                    /\ \/ RMul(ret.scale, a.x) = a.MAX_X[1]
                       \/ RMul(ret.scale, a.y) = a.MAX_Y[1]

\* both axes constrained and the quotients differ: the y axis decides
C12_Witness ==
    /\ GotScale
    /\ call.arg = [MAX_X |-> <<RI(MAX_X)>>, MAX_Y |-> <<RI(MAX_Y)>>,
                   x |-> RI(MAX_Y), y |-> RI(2 * MAX_X)]
    /\ ret = [err |-> "", scale |-> Rat(1, 4)]

\* C13: with a maximum extent set and an observed extent of zero on a
\* constrained axis, computing the scale ends in a GeometryError and never
\* in a division by zero.
C13_ZeroExtent ==
    (/\ GotScale
     /\ \/ Constrained(call.arg.MAX_X) /\ RIsZero(call.arg.x)
        \/ Constrained(call.arg.MAX_Y) /\ RIsZero(call.arg.y)) =>
        ret.err = "GeometryError"

----------------------------------------------------------------------------
(* _get_overcut (SpecOvercut).  call.arg holds the two points, ret the      *)
(* overcut point.                                                          *)

GotOvercut == call.op = "_get_overcut"

\* how far the overcut point lies from the start of the shape, and the way
\* from the last point to the start of the shape
Overshoot == CSub(ret, call.arg.shape_start)
Heading == CSub(call.arg.shape_start, call.arg.last_point)

\* a and b point the same way: parallel and not opposed
SameWay(a, b) ==
    /\ RMul(a.real, b.imag) = RMul(a.imag, b.real)
    /\ RLe(RI(0), RAdd(RMul(a.real, b.real), RMul(a.imag, b.imag)))

\* the length of a is len, as exactly as the square root of n2 is taken
LengthIs(a, len, n2) ==
    /\ RLe(RMul(len, len), CNorm2(a))
    /\ RLe(RMul(CNorm2(a), RI((SqrtPrec - 1) * (SqrtPrec - 1))),
           RMul(RMul(len, len), RI(SqrtPrec * SqrtPrec)))
    /\ (IsSquare(n2[1]) /\ IsSquare(n2[2])) => CNorm2(a) = RMul(len, len)

\* C14: _get_overcut returns shape_start + blade_offset * direction, the
\* direction being (1,1) when the last point is the start of the shape and
\* otherwise the unit vector from the last point toward the start of the
\* shape; with a blade offset of 0 it returns shape_start, whatever the last
\* point.
C14_Overcut ==
    GotOvercut =>
        /\ call.arg.last_point = call.arg.shape_start =>
              Overshoot = CScale(options.blade_offset, CI(1, 1))
        /\ call.arg.last_point # call.arg.shape_start =>
              /\ SameWay(Overshoot, Heading)
              /\ LengthIs(Overshoot, options.blade_offset, CNorm2(Heading))
        /\ RIsZero(options.blade_offset) => ret = call.arg.shape_start

\* a blade offset of 2 carried along a 3-4-5 heading
C14_Witness ==
    /\ GotOvercut
    /\ call.arg = [shape_start |-> CI(3, 4), last_point |-> CI(0, 0)]
    /\ options.blade_offset = RI(2)
    /\ ret = Cx(Rat(21, 5), Rat(28, 5))

----------------------------------------------------------------------------
(* The options widget (SpecOptions).  call.arg holds the options file of   *)
(* the last load.                                                          *)

GotOptions == call.op \in {"load_options", "_load_default"}

\* the parsed document of the last load; no table at all when _load_default
\* found no file
FileData ==
    IF call.op = "load_options" THEN call.arg.data
    ELSE IF call.arg = <<>>
         THEN [point |-> <<>>, machine |-> <<>>, gcode |-> <<>>]
         ELSE call.arg[1].data

\* the value of a key of a table of the file; <<>> when the key or the
\* whole table is absent
Key(table, k) == IF table = <<>> THEN <<>> ELSE table[1][k]

\* the option got is the default when the file does not have the field v,
\* and the file's value when it has one
TakesInt(v, default, got) ==
    IF v = <<>> THEN got = default ELSE v[1] > 0 => got = v[1]
TakesList(v, default, got) ==
    IF v = <<>> THEN got = default ELSE v[1] # <<>> => got = v[1]
TakesRat(v, default, got) ==
    IF v = <<>> THEN got = default ELSE got = v[1]

\* C16: after load_options, or _load_default without an options file,
\* every option whose field is absent from the file has its documented
\* default and every option whose field is present has the file's value
\* (of the options SlicingOptions declares: the feed rates, the curve
\* resolution, the four gcode fragments, the start point and the maximum).
C16_Defaults ==
    GotOptions =>
        /\ TakesInt(Key(FileData.machine, "normal_feedrate"), 500,
                    options.normal_feedrate)
        /\ TakesInt(Key(FileData.machine, "travel_feedrate"), 4000,
                    options.travel_feedrate)
        /\ TakesInt(Key(FileData.machine, "curve_resolution"), 20,
                    options.curve_resolution)
        /\ TakesList(Key(FileData.gcode, "start"), DEFAULT_START_GCODE,
                     options.start_gcode)
        /\ TakesList(Key(FileData.gcode, "end"), DEFAULT_END_GCODE,
                     options.end_gcode)
        /\ TakesList(Key(FileData.gcode, "lift"), DEFAULT_LIFT_GCODE,
                     options.lift_gcode)
        /\ TakesList(Key(FileData.gcode, "unlift"), DEFAULT_UNLIFT_GCODE,
                     options.unlift_gcode)
        /\ TakesRat(Key(FileData.point, "start_x"), DEFAULT_START_POINT.real,
                    options.start_point.real)
        /\ TakesRat(Key(FileData.point, "start_y"), DEFAULT_START_POINT.imag,
                    options.start_point.imag)
        /\ (Key(FileData.point, "max_x") = <<>>
                /\ Key(FileData.point, "max_y") = <<>>) =>
              options.max_point = <<>>

\* C17: load_options does not end in an error, and leaves feed rates above
\* zero and a curve resolution of two or more, whatever the fields of the
\* file hold (a zero or negative feed rate, a curve resolution below two).
C17_WellFormedOptions ==
    GotOptions =>
        /\ ret.err = ""
        /\ options.normal_feedrate > 0
        /\ options.travel_feedrate > 0
        /\ options.curve_resolution >= 2

\* the last call read the options back from the boxes a load had filled
Updated == call.op = "update_options"

\* C29: after any sequence of load_options calls followed by update_options,
\* the boxes not edited in between, every option is what the last
\* load_options set: a maximum the last file leaves unset stays None, and
\* the gcode fragments keep all their lines, the empty ones included.
C29_UpdateKeepsLoaded ==
    Updated =>
        /\ options.start_point = call.loaded.start_point
        /\ options.max_point = call.loaded.max_point
        /\ options.normal_feedrate = call.loaded.normal_feedrate
        /\ options.travel_feedrate = call.loaded.travel_feedrate
        /\ options.curve_resolution = call.loaded.curve_resolution
        /\ options.start_gcode = call.loaded.start_gcode
        /\ options.end_gcode = call.loaded.end_gcode
        /\ options.lift_gcode = call.loaded.lift_gcode
        /\ options.unlift_gcode = call.loaded.unlift_gcode

\* the last call loaded the table of well-formed options with a maximum
LoadedOwnDict ==
    /\ call.op = "get_dict"
    /\ call.arg.normal_feedrate > 0
    /\ call.arg.travel_feedrate > 0
    /\ call.arg.curve_resolution >= 2
    /\ call.arg.max_point # <<>>

\* C30: for options o with positive feed rates, a curve resolution of two
\* or more and a maximum set, load_options of the table o.get_dict() gives
\* options equal to o: start point, maximum, feed rates, curve resolution
\* and the four gcode fragments.
C30_DictRoundTrip ==
    LoadedOwnDict =>
        /\ options.start_point = call.arg.start_point
        /\ options.max_point = call.arg.max_point
        /\ options.normal_feedrate = call.arg.normal_feedrate
        /\ options.travel_feedrate = call.arg.travel_feedrate
        /\ options.curve_resolution = call.arg.curve_resolution
        /\ options.start_gcode = call.arg.start_gcode
        /\ options.end_gcode = call.arg.end_gcode
        /\ options.lift_gcode = call.arg.lift_gcode
        /\ options.unlift_gcode = call.arg.unlift_gcode

----------------------------------------------------------------------------
(* The generator's lines read back by the viewer (SpecViewer).  call.arg    *)
(* holds the command and the point it was serialized for.                  *)

\* the last call parsed a linear move of the generator
ParsedMove ==
    /\ call.op = "_process_g0_g1"
    /\ SubSeq(call.arg.command, 1, 4) = "G1 X"

\* C19: parsing a linear move G1 X<x> Y<y> of the serializer with the
\* viewer's G0/G1 parser gives back x and y, the corrected coordinates that
\* were written (integral, fractional, negative, very small or large).
C19_RoundTrip ==
    ParsedMove =>
        ret = <<[X |-> <<RAdd(call.arg.of.point.real, options.start_point.real)>>,
                 Y |-> <<RAdd(call.arg.of.point.imag, options.start_point.imag)>>,
                 Z |-> <<>>]>>

----------------------------------------------------------------------------
(* helpers.save_file (SpecSave).  call.arg holds the file name the dialog   *)
(* gave, the contents and how open and commit turned out.                  *)

\* the warning save_file is to show when doing what fails on the file
Warning(doing) ==
    "Cannot " \o doing \o " file " \o call'.arg.file_name \o ":\n"
    \o call'.arg.reason \o "."

\* one step of save_file as C18 wants it
SavedAsClaimed ==
    /\ ret'.value \in {<<>>, <<call'.arg.file_name>>}
    /\ ret'.value # <<>> =>
          /\ call'.arg.file_name # ""
          /\ ret'.opened
          /\ files' = [files EXCEPT
                          ![call'.arg.file_name] = <<call'.arg.file_contents>>]
          /\ warnings' = warnings
    /\ call'.arg.file_name = "" =>
          /\ ret'.value = <<>>
          /\ ~ret'.opened
          /\ warnings' = warnings
    /\ (call'.arg.file_name # "" /\ ~call'.arg.opens) =>
          /\ warnings' = Append(warnings, Warning("open"))
          /\ ret'.value = <<>>
          /\ files' = files
    /\ (call'.arg.file_name # "" /\ call'.arg.opens /\ ~call'.arg.commits) =>
          /\ warnings' = Append(warnings, Warning("write"))
          /\ ret'.value = <<>>
          /\ files' = files
    /\ (call'.arg.file_name # "" /\ call'.arg.opens /\ call'.arg.commits) =>
          ret'.value = <<call'.arg.file_name>>

\* C18: save_file returns the chosen file name only when the file was
\* opened, written with file_contents and committed; with no file name
\* chosen it returns None, opens no file and shows no warning; when open
\* or commit fails it shows exactly one warning (Cannot open file ... /
\* Cannot write file ..., with the error string), returns None and leaves
\* no file behind.
C18_SaveFile == [][call'.op = "save_file" => SavedAsClaimed]_vars

\* a commit that fails on a file saved before: the earlier contents stay
\* and one warning is shown
C18_Witness ==
    /\ call.op = "save_file"
    /\ call.arg.file_name = "out.gcode"
    /\ call.arg.file_contents = ""
    /\ call.arg.opens /\ ~call.arg.commits
    /\ ret = [value |-> <<>>, opened |-> TRUE]
    /\ files["out.gcode"] = <<"G1 X1 Y1\n">>
    /\ warnings = <<"Cannot write file out.gcode:\nPermission denied.">>

----------------------------------------------------------------------------
(* generate_gcode on parsed path sets (Spec).  call.arg holds the parsed   *)
(* paths, ret.paths the paths _get_points worked on, ret.log the            *)
(* primitives it flattened and ret.err the exception that ended the call.  *)

Converted == call.op = "generate_gcode"
Completed == Converted /\ ret.err = ""

\* the primitives of the path set in loop order
Subpaths == Concat(ret.paths)

\* the end of the primitive flattened before the i-th flattened one
PreviousEnd(i) ==
    IF i = 1 THEN CI(0, 0) ELSE Subpaths[ret.log[i - 1].prim].end

\* C1: the first ToolPoint of every flattened primitive is raised exactly
\* when the primitive starts away from the end of the primitive flattened
\* before it (the origin for the first one); its other ToolPoints are not
\* raised.
C1_RaisedAtBreaks ==
    Converted =>
        \A i \in 1..Len(ret.log) :
            /\ points[ret.log[i].at].raised
                  = (Subpaths[ret.log[i].prim].start # PreviousEnd(i))
            /\ \A j \in 1..(ret.log[i].n - 1) :
                  ~points[ret.log[i].at + j].raised

RECURSIVE Counted(_)
\* the number of points the flattened primitives gave
Counted(log) == IF log = <<>> THEN 0 ELSE Head(log).n + Counted(Tail(log))

\* C2: with a blade offset of 0 the point stream holds the flattened points
\* of the primitives and nothing more; the single line from (0,0) to (10,10)
\* gives the two ToolPoints (0,0), (10,10) and one `G1 X10 Y10`.
C2_NoPointsAdded ==
    (Completed /\ options.blade_offset = RI(0)) =>
        /\ Len(points) = Counted(ret.log)
        /\ call.arg = <<<<Line(PO, CI(10, 10))>>>> =>
              /\ points = <<[point |-> PO, raised |-> FALSE],
                            [point |-> CI(10, 10), raised |-> FALSE]>>
              /\ Cardinality({i \in 1..Len(gcode) : gcode[i] = "G1 X10 Y10"}) = 1

RECURSIVE Instructions(_)
\* the lines of the ToolPoints pts, point after point
Instructions(pts) ==
    IF pts = <<>> THEN <<>>
    ELSE get_gcode(Head(pts), options) \o Instructions(Tail(pts))

\* C3: after generate_gcode the gcode list is the header, the start gcode,
\* the lines of every ToolPoint of self.points in stream order and the end
\* gcode, and nothing else.
C3_GcodeLayout ==
    Completed =>
        gcode = HEADER \o options.start_gcode \o Instructions(points)
                \o options.end_gcode

\* a second conversion on the same generator, of two primitives or more
C3_Witness ==
    /\ Completed
    /\ calls = 2
    /\ Len(ret.log) >= 2
    /\ Len(points) >= 4
    /\ Len(gcode) > Len(HEADER) + Len(options.start_gcode) + Len(options.end_gcode)

\* the ToolPoints pts with every point multiplied by scale
Scaled(pts, scale) ==
    [i \in 1..Len(pts) |-> [pts[i] EXCEPT !.point = CScale(scale, pts[i].point)]]

\* C6: the coordinates of every linear move are point * scale + start
\* offset, with the scale of the bounding box and the maximum extent.
C6_ScaledCoordinates ==
    (Completed /\ ~RIsZero(largest_x) /\ ~RIsZero(largest_y)) =>
        gcode = HEADER \o options.start_gcode
                \o Instructions(Scaled(points,
                       _get_scale(options, largest_x, largest_y)))
                \o options.end_gcode

\* C15: after _get_points the bounding box covers every ToolPoint of the
\* point stream, the overcut points included.
C15_BoundingBoxCoversStream ==
    Completed =>
        \A i \in 1..Len(points) :
            /\ RLe(points[i].point.real, largest_x)
            /\ RLe(points[i].point.imag, largest_y)

RECURSIVE ShapeStart(_)
\* the start of the shape the i-th flattened primitive belongs to: the
\* start of the last primitive up to it that began away from the end of
\* the one before
ShapeStart(i) ==
    IF i = 0 THEN Subpaths[1].start
    ELSE IF Subpaths[ret.log[i].prim].start # PreviousEnd(i)
         THEN Subpaths[ret.log[i].prim].start
         ELSE ShapeStart(i - 1)

\* the ToolPoints between the points of the (i-1)-th and of the i-th
\* flattened primitive
Between(i) ==
    SubSeq(points, ret.log[i - 1].at + ret.log[i - 1].n, ret.log[i].at - 1)

\* C20: before the points of a primitive, other than the first, that starts
\* away from the previous end there is exactly one overcut ToolPoint, not
\* raised, computed from the start of the previous shape and the
\* second-to-last point produced until then; before any other primitive,
\* and before the very first, there is none.
C20_OvercutAtBreaks ==
    Converted =>
        \A i \in 1..Len(ret.log) :
            IF i = 1 THEN ret.log[i].at = 1
            ELSE IF Subpaths[ret.log[i].prim].start = PreviousEnd(i)
            THEN Between(i) = <<>>
            ELSE /\ ret.log[i].at >= 4
                 /\ Between(i) =
                      <<[point |-> _get_overcut(options, ShapeStart(i - 1),
                                       points[ret.log[i].at - 3].point),
                         raised |-> FALSE]>>

\* the path set _get_points worked on has a primitive
NonEmpty == Converted /\ Subpaths # <<>>

\* C21: for every non-empty path set _get_points ends without error and,
\* after the points of the last primitive, appends exactly one more
\* ToolPoint, not raised: the overcut computed from the start of the last
\* shape and the second-to-last point produced.  It is the last element of
\* the point stream.
C21_FinalOvercut ==
    NonEmpty =>
        /\ ret.err = ""
        /\ ret.log # <<>>
        /\ Len(points) = ret.log[Len(ret.log)].at + ret.log[Len(ret.log)].n
        /\ points[Len(points)] =
              [point |-> _get_overcut(options, ShapeStart(Len(ret.log)),
                                      points[Len(points) - 2].point),
               raised |-> FALSE]

\* the path set without its empty paths
WithoutEmpty(paths) == SelectSeq(paths, LAMBDA path : path # <<>>)
HasEmptyPath(paths) == \E i \in 1..Len(paths) : paths[i] = <<>>

\* the last call converted a path set with an empty path and a path that
\* is not empty
SkipsEmpty ==
    /\ Converted
    /\ HasEmptyPath(call.arg)
    /\ WithoutEmpty(call.arg) # <<>>

\* C22: an empty path at any position of the path set is skipped: the
\* conversion ends as the conversion of the path set without its empty paths
\* does (without error when that one has none), with the same ToolPoints and
\* the same gcode, so the empty path adds no point and leaves previous_end
\* alone.
C22_EmptySubpathSkipped ==
    SkipsEmpty =>
        \E solve \in Oracles(ArcsOf(call.arg)) :
            LET g == generate_gcode(call.largest_x, call.largest_y, <<>>,
                                    options, solve, WithoutEmpty(call.arg))
            IN  /\ ret.err = g.err
                /\ g.err = "" => points = g.points /\ gcode = g.gcode

\* the path set with the primitives of the four known types only
KnownOnly(paths) ==
    [i \in 1..Len(paths) |-> SelectSeq(paths[i], LAMBDA subpath : IsKnown(subpath))]

\* the last call walked a path set with a primitive of another type, every
\* path of which has a primitive of a known type
SkipsUnknown ==
    /\ Converted
    /\ \E i \in 1..Len(Subpaths) : ~IsKnown(Subpaths[i])
    /\ \A i \in 1..Len(ret.paths) : KnownOnly(ret.paths)[i] # <<>>

\* C23: a primitive that is none of Line, Arc, QuadraticBezier and
\* CubicBezier is skipped without error and without effect: _get_points
\* ends as it does on the path set without that primitive, with the same
\* point stream (the same points, raised flags and overcut points, which
\* show the pending raise, the shape start and previous_end).
C23_UnknownSkipped ==
    SkipsUnknown =>
        \E solve \in Oracles(ArcsOf(call.arg)) :
            LET g == _get_points(call.largest_x, call.largest_y, options, solve,
                                 KnownOnly(ret.paths))
            IN  /\ ret.err = g.err
                /\ points = g.points

\* C25: after any sequence of generate_gcode calls on one generator the
\* point stream, the gcode lines and the bounding box are those a freshly
\* constructed generator (bounding box (0,0), no points) gives for the last
\* input alone.
C25_NothingCarriesOver ==
    Converted =>
        \E solve \in Oracles(ArcsOf(call.arg)) :
            LET g == generate_gcode(RI(0), RI(0), <<>>, options, solve, call.arg)
            IN  /\ ret.err = g.err
                /\ points = g.points
                /\ gcode = g.gcode
                /\ largest_x = g.largest_x
                /\ largest_y = g.largest_y

\* the last call reached _get_points: the path set and its last path are
\* not empty
Walked == Converted /\ call.arg # <<>> /\ call.arg[Len(call.arg)] # <<>>

\* the places of self.points that hold the flattened points of a primitive,
\* and those that hold the first of them
FlattenedAt == {i \in 1..Len(points) : \E k \in 1..Len(ret.log) :
                   ret.log[k].at <= i /\ i < ret.log[k].at + ret.log[k].n}
FirstAt == {ret.log[k].at : k \in 1..Len(ret.log)}

----------------------------------------------------------------------------
(* The gcode of a conversion as the machine reads it (Spec) *)

\* the lines of the ToolPoints: the gcode without header, start and end gcode
PointLines ==
    SubSeq(gcode, Len(HEADER) + Len(options.start_gcode) + 1,
           Len(gcode) - Len(options.end_gcode))

\* a linear move to a point
IsMove(line) == Len(line) >= 4 /\ SubSeq(line, 1, 4) = "G1 X"

\* the fragment stands in lines from place i on
StandsAt(lines, i, fragment) ==
    /\ i + Len(fragment) - 1 <= Len(lines)
    /\ SubSeq(lines, i, i + Len(fragment) - 1) = fragment

RECURSIVE Alternating(_, _)
\* from place i on, with the tool lowered: moves, and lifts each followed by
\* the travel feed rate, exactly one move, the normal feed rate and the
\* unlift fragment
Alternating(lines, i) ==
    IF i > Len(lines) THEN TRUE
    ELSE IF IsMove(lines[i]) THEN Alternating(lines, i + 1)
    ELSE LET j == i + Len(options.lift_gcode)
         IN  /\ StandsAt(lines, i, options.lift_gcode)
             /\ j + 2 <= Len(lines)
             /\ lines[j] = TravelLine
             /\ IsMove(lines[j + 1])
             /\ lines[j + 2] = NormalLine
             /\ StandsAt(lines, j + 3, options.unlift_gcode)
             /\ Alternating(lines, j + 3 + Len(options.unlift_gcode))

\* the feed rate a line sets (G0 F<n> or G1 F<n>), <<>> when it sets none
FeedWord(line) ==
    IF /\ Len(line) >= 5
       /\ SubSeq(line, 1, 4) \in {"G0 F", "G1 F"}
       /\ DigitsEnd(line, 5) > 5
    THEN <<NatOf(line, 5, DigitsEnd(line, 5), 0)>>
    ELSE <<>>

RECURSIVE ActiveFeed(_, _)
\* the feed rate in force after the first k lines: the last one set, <<>>
\* when no line has set one
ActiveFeed(lines, k) ==
    IF k = 0 THEN <<>>
    ELSE IF FeedWord(lines[k]) # <<>> THEN FeedWord(lines[k])
    ELSE ActiveFeed(lines, k - 1)

RECURSIVE BlockEnd(_)
\* the number of lines of the first k ToolPoints
BlockEnd(k) ==
    IF k = 0 THEN 0
    ELSE BlockEnd(k - 1)
         + (IF points[k].raised
            THEN Len(options.lift_gcode) + 3 + Len(options.unlift_gcode)
            ELSE 1)

\* C27: in the gcode of a conversion lift and unlift fragments alternate,
\* starting with lift; every travel feed rate is followed by the normal feed
\* rate before the lines of the next ToolPoint; there is exactly one linear
\* move between a lift and its unlift; and so after the lines of each
\* ToolPoint the tool is lowered and the normal feed rate is the one in
\* force.
C27_LoweredAtNormalFeed ==
    Completed =>
        \A k \in 1..Len(points) :
            /\ BlockEnd(k) <= Len(PointLines)
            /\ Alternating(SubSeq(PointLines, 1, BlockEnd(k)), 1)
            /\ ActiveFeed(gcode, Len(HEADER) + Len(options.start_gcode)
                                 + BlockEnd(k))
                  = <<options.normal_feedrate>>

----------------------------------------------------------------------------
(* What generate_gcode hands to _get_points (Spec) *)

\* the last primitive of the last path of the parsed path set
LastParsed == call.arg[Len(call.arg)][Len(call.arg[Len(call.arg)])]

\* a Line shorter than 0.001
ShortLine(subpath) ==
    /\ subpath.kind = "Line"
    /\ RLt(RAdd(RMul(RSub(subpath.start.real, subpath.end.real),
                     RSub(subpath.start.real, subpath.end.real)),
                RMul(RSub(subpath.start.imag, subpath.end.imag),
                     RSub(subpath.start.imag, subpath.end.imag))),
           Rat(1, 1000 * 1000))

====
